---- MODULE Spec2Model ----
(***************************************************************************)
(* LiveTube: the fallback resolution pipeline and its memoization caches.  *)
(*                                                                         *)
(* The repository holds two builds of the server: src/main.ts (two caches, *)
(* namespaced keys, auth middleware) and src/unnamed/part_000 (one         *)
(* TTL_CACHE, default memoize keys, a clear-cache endpoint).  The variable *)
(* build says which one a behaviour runs; it never changes.                *)
(*                                                                         *)
(* One JavaScript event loop: a macrotask (an arriving request, an         *)
(* upstream response, a timer) runs to completion, then every continuation *)
(* it made ready (ready, the microtask queue) runs before the next         *)
(* macrotask.                                                              *)
(***************************************************************************)
EXTENDS Integers, Sequences, FiniteSets, TLC

VARIABLES
    build,      \* "main" (src/main.ts) or "legacy" (src/unnamed/part_000)
    useCache,   \* USE_CACHE
    apiKey,     \* whether API_KEY is set
    cache,      \* cache id -> the Map's entries, in Map iteration order, each
                \* with its age: the clock ticks since it was inserted
    prom,       \* the promises made by the wrapped async functions, each
                \* with the handlers awaiting it, in the order they began to
    refs,       \* legacy: the object-identity counter of the default getKey
    rq,         \* request -> the handler's position, locals and response
    ready,      \* handlers whose awaited promise has settled (microtasks)
    cleared,    \* the response to the clear-cache request of the last step, if
                \* that step was one
    dropped,    \* history: the promises whose cache entry was evicted, expired
                \* or cleared
    recent,     \* history: the keys looked up in the LruCache, least recent first
    ev,         \* history: what the upstream did in the last step, if that step
                \* was the end of an upstream call
    health      \* the response to the /health request of the last step, if that
                \* step was one, and the exit code of the --health process

vars == <<build, useCache, apiKey, cache, prom, refs, rq, ready, cleared, dropped, recent, ev,
          health>>

----------------------------------------------------------------------------
(* Bounds of the model                                                     *)

MaxRequests == 2    \* requests to the main endpoint in one run
MaxProm == 3        \* invocations of the wrapped async functions in one run
MaxPairs == 3       \* key=value pairs in a query given to the parser alone

(* Configuration, scaled down: the cache capacity and the TTL in ticks.    *)
MaxSize == 2
Ttl == 2

None == "undefined"

Requests == 1..MaxRequests
Proms == 1..MaxProm

----------------------------------------------------------------------------
(* Inputs                                                                  *)

allowedParams == {"v", "c", "x"}

DirectUrls == {"u1", "u2", "u3?h", "no url"}
VideoIds == {"a", "b"}
Handles == {"@x"}

P(t, v) == [type |-> t, value |-> v]

(* Seeded fault: a pair with an unrecognized key is always skipped.        *)
pushParamSkipUnknown(params, key, value) ==
    IF key \in allowedParams THEN Append(params, P(key, value)) ELSE params

(* One iteration of `for (const [key, value] of url.searchParams.entries())`: *)
(* params.push({ type: key, value }), or                                   *)
(* params[params.length - 1].value += `&${key}=${value}`                   *)
pushParam(params, key, value) ==
    IF key \in allowedParams
    THEN Append(params, P(key, value))
    ELSE IF Len(params) > 0
         THEN [params EXCEPT ![Len(params)].value = @ \o "&" \o key \o "=" \o value]
         ELSE params

(* The loop over the entries of the query, from `const params = []`        *)
RECURSIVE parseParams(_, _)
parseParams(params, entries) ==
    IF entries = <<>>
    THEN params
    ELSE parseParams(pushParam(params, Head(entries)[1], Head(entries)[2]), Tail(entries))

(* The queries sent to the running server, as url.searchParams.entries()   *)
(* gives them.  The third direct URL is there to overfill the LruCache of  *)
(* main.ts; part_000, whose getVideoId is not memoized, gets a query with  *)
(* a handle alone.                                                         *)
Queries ==
    {<<<<"utm", "1">>>>,
     <<<<"x", "u1">>, <<"x", "u2">>>>,
     <<<<"v", "a">>, <<"c", "@x">>>>}
    \cup (IF build = "main" THEN {<<<<"x", "u1">>, <<"x", "no url">>, <<"x", "u3?h">>>>}
          ELSE {<<<<"c", "@x">>>>})

(* The queries given to the parser alone: every sequence of up to MaxPairs *)
(* pairs over these keys and values.                                       *)
QueryKeys == {"v", "c", "x", "junk"}

QueryValues == {"abc", "http://u", "1"}

ParserQueries ==
    UNION {[1..n -> {<<k, v>> : k \in QueryKeys, v \in QueryValues}] : n \in 0..MaxPairs}

(* new URL(url) throws on a string that is no absolute URL                 *)
ValidUrl(url) == url # "no url"

(* urlObj.searchParams.delete(customHeaderKey); urlObj.toString()          *)
CleanUrl(url) == IF url = "u3?h" THEN "u3" ELSE url

(* `https://www.youtube.com/${param.value}/live`                           *)
LiveUrl(handle) == CASE handle = "@x" -> "https://www.youtube.com/@x/live"

(* info?.streaming_data?.hls_manifest_url of a video that is live          *)
ManifestUrl(vid) == "https://m.example/" \o vid \o ".m3u8"

(* Seeded fault: the tests `streamUrl !== null`, which undefined passes.    *)
TruthyNotNull(v) == TRUE

(* if (streamUrl), if (!vid)                                               *)
Truthy(v) == v # None

----------------------------------------------------------------------------
(* Request headers and the API key.  A header value is the sequence of its *)
(* parts, <<>> when the header is absent.                                  *)

API_KEY == <<"K">>

(* `Bearer ${key}`                                                         *)
Bearer(key) == <<"Bearer ">> \o key

(* String.prototype.includes                                               *)
includes(s, t) == \E i \in 0..(Len(s) - Len(t)) : SubSeq(s, i + 1, i + Len(t)) = t

NoHeaders == [auth |-> <<>>, ua |-> <<>>]

Anonymous == [auth |-> <<>>, ua |-> <<"Mozilla">>]

(* The headers requests come with: none of the key, the key as Bearer      *)
(* token, the key inside the User-Agent, and the same two with the key     *)
(* followed by an X.  With no API_KEY set the requests are anonymous.      *)
HeaderSets ==
    IF apiKey
    THEN {Anonymous,
          [auth |-> Bearer(API_KEY), ua |-> <<"Mozilla">>],
          [auth |-> <<>>, ua |-> <<"Mozilla", "/">> \o API_KEY],
          [auth |-> Bearer(API_KEY \o <<"X">>), ua |-> <<"Mozilla">>],
          [auth |-> <<>>, ua |-> <<"Mozilla", "/">> \o API_KEY \o <<"X">>]}
    ELSE {Anonymous}

(* Access to the main endpoint.  main.ts: some(() => !API_KEY,             *)
(* bearerAuth({ verifyToken: token.includes(API_KEY), prefix: "",          *)
(* headerName: "User-Agent" })).  part_000: hasAccess of app.get("/").     *)
hasAccess(h) ==
    IF ~apiKey THEN TRUE
    ELSE IF build = "main" THEN includes(h.ua, API_KEY)
    ELSE h.auth = Bearer(API_KEY) \/ includes(h.ua, API_KEY)

(* part_000: hasAccess of app.get("/clear-cache")                          *)
hasAccessClear(h) ==
    IF ~apiKey THEN TRUE
    ELSE h.auth = Bearer(API_KEY \o <<"X">>) \/ includes(h.ua, API_KEY \o <<"X">>)

NoClear == [status |-> 0, message |-> "", hdr |-> NoHeaders]

(* The headers of the fetch the --health process makes: the runtime's own  *)
(* User-Agent and nothing of the key.                                      *)
SelfCheckHeaders == [auth |-> <<>>, ua |-> <<"Deno">>]

(* The key inside the User-Agent, which both builds accept on "/"          *)
WithKey == [auth |-> <<>>, ua |-> <<"Mozilla", "/">> \o API_KEY]

(* app.use: the middleware every route passes through.  In main.ts it ends *)
(* with the bearerAuth on the User-Agent; part_000's has no such check.    *)
Middleware(h) == IF build = "main" THEN hasAccess(h) ELSE TRUE

(* Response.ok: the status is in the range 200-299                         *)
IsOk(status) == status >= 200 /\ status <= 299

NoExit == -1

NoHealth == [status |-> 0, body |-> "", hdr |-> NoHeaders, cli |-> FALSE, exit |-> NoExit]

----------------------------------------------------------------------------
(* The caches of @std/cache.  A cache is the sequence of its entries in    *)
(* Map iteration order; an entry is [key, p, age]: the memoized promise p  *)
(* and its age; the timer a TtlCache sets for it is due at age Ttl.         *)

CacheIds ==
    {"STREAM_VALIDATION_CACHE", "VIDEO_INFO_CACHE", "TTL_CACHE",
     "Map:validateStream", "Map:getVideoInfo", "Map:getVideoId"}

DefaultMap(fn) ==
    CASE fn = "validateStream" -> "Map:validateStream"
      [] fn = "getVideoInfo" -> "Map:getVideoInfo"
      [] fn = "getVideoId" -> "Map:getVideoId"

(* The class of each cache object: new LruCache(..), new TtlCache(..),     *)
(* and memoize's own `options?.cache ?? new Map()`.                        *)
CacheKind(cid) ==
    CASE cid = "STREAM_VALIDATION_CACHE" -> "LruCache"
      [] cid = "VIDEO_INFO_CACHE" -> "TtlCache"
      [] cid = "TTL_CACHE" -> "TtlCache"
      [] OTHER -> "Map"

(* memoize(fn, { cache: USE_CACHE ? X : undefined })                       *)
CacheOf(b, uc, fn) ==
    IF ~uc THEN DefaultMap(fn)
    ELSE IF b = "legacy" THEN "TTL_CACHE"
    ELSE IF fn = "validateStream" THEN "STREAM_VALIDATION_CACHE"
    ELSE "VIDEO_INFO_CACHE"

(* part_000 wraps validateStream and getVideoInfo only.                    *)
Memoized(b, fn) == b = "main" \/ fn # "getVideoId"

(* The name `{${i++}}` the default getKey gives the i-th new object.       *)
RefName(i) == <<"{0}", "{1}", "{2}", "{3}", "{4}", "{5}", "{6}">>[i + 1]

(* Seeded fault: the keys of main.ts carry no namespace.                   *)
getKeyNoNamespace(b, fn, arg, ref) ==
    IF b = "main"
    THEN arg
    ELSE IF fn = "validateStream" THEN "undefined," \o RefName(ref)
         ELSE "undefined,\"" \o arg \o "\""

(* getKey.  main.ts: `stream:${url}`, `video:${vid}`, `resolve:${url}`.    *)
(* part_000: the default key, [this, ...args] serialized and joined with a *)
(* comma: a string argument by value (JSON.stringify), an object by        *)
(* identity (validateStream is called with the param object, which the     *)
(* handler builds anew for every request).                                 *)
getKey(b, fn, arg, ref) ==
    IF b = "main"
    THEN CASE fn = "validateStream" -> "stream:" \o arg
           [] fn = "getVideoInfo" -> "video:" \o arg
           [] fn = "getVideoId" -> "resolve:" \o arg
    ELSE IF fn = "validateStream" THEN "undefined," \o RefName(ref)
         ELSE "undefined,\"" \o arg \o "\""

Keys(c) == {c[i].key : i \in 1..Len(c)}

IndexOf(c, key) == CHOOSE i \in 1..Len(c) : c[i].key = key

Get(c, key) == c[IndexOf(c, key)]

(* Seeded fault: the cache is never consulted.                             *)
HasNever(c, key) == FALSE

(* Seeded fault: an entry counts only once its promise has settled.        *)
HasSettled(c, key) == key \in Keys(c) /\ prom[Get(c, key).p].st = "settled"

Has(c, key) == key \in Keys(c)

Delete(c, key) == SelectSeq(c, LAMBDA e : e.key # key)

(* LruCache.#setMostRecentlyUsed: super.delete(key); super.set(key, value) *)
setMostRecentlyUsed(c, e) == Append(Delete(c, e.key), e)

(* LruCache.#pruneToMaxSize: drop the first key of the Map when over size  *)
pruneToMaxSize(c) == IF Len(c) > MaxSize THEN Tail(c) ELSE c

(* Seeded fault: a hit does not refresh the recency (first in, first out). *)
TouchNoRefresh(cid, c, key) == c

(* Seeded fault: a hit restarts the entry's lifetime (sliding expiration). *)
TouchRestartsTtl(cid, c, key) ==
    [i \in 1..Len(c) |-> IF c[i].key = key THEN [c[i] EXCEPT !.age = 0] ELSE c[i]]

(* cache.has(key) followed by cache.get(key), as memoize does on a hit:    *)
(* both refresh the recency in an LruCache and change nothing elsewhere.   *)
Touch(cid, c, key) ==
    IF CacheKind(cid) = "LruCache" THEN setMostRecentlyUsed(c, Get(c, key)) ELSE c

(* cache.set(key, value) after a miss                                      *)
Set(cid, c, key, p) ==
    IF CacheKind(cid) = "LruCache"
    THEN pruneToMaxSize(setMostRecentlyUsed(c, [key |-> key, p |-> p, age |-> 0]))
    ELSE Append(Delete(c, key), [key |-> key, p |-> p, age |-> 0])

----------------------------------------------------------------------------
(* Promises.  st is "free" (not made yet), "HEAD" / "GET" (validateStream  *)
(* waiting for that probe), "pending" (getInfo / resolveURL outstanding),  *)
(* "settled" (fulfilled, with a string or with undefined) or "rejected".   *)

(* An upstream call of promise p ended: the call ("HEAD", "GET", "getInfo", *)
(* "resolveURL"), the status of the response to a probe, and whether the   *)
(* call raised an error instead of answering (a probe: it failed at the    *)
(* connection level).                                                      *)
NoResponse == 0

NoEvent == [p |-> 0, call |-> "", status |-> NoResponse, threw |-> FALSE]

Answered(p, call, status) == [p |-> p, call |-> call, status |-> status, threw |-> FALSE]

Threw(p, call) == [p |-> p, call |-> call, status |-> NoResponse, threw |-> TRUE]

NoProm == [fn |-> "", arg |-> "", key |-> "", st |-> "free", val |-> None,
           waiters |-> <<>>]

NextProm == 1 + Cardinality({p \in Proms : prom[p].st # "free"})

InFlight(p) == prom[p].st \in {"HEAD", "GET", "pending"}

(* The body of the wrapped async function up to its first await: the       *)
(* upstream call is issued before the function returns its promise.  In    *)
(* main.ts validateStream first parses the URL: when that throws, the      *)
(* catch block logs and the promise is fulfilled with undefined at once.   *)
Invoke(fn, arg, key) ==
    [fn |-> fn, arg |-> arg, key |-> key,
     st |-> IF fn # "validateStream" THEN "pending"
            ELSE IF build = "main" /\ ~ValidUrl(arg) THEN "settled" ELSE "HEAD",
     val |-> None, waiters |-> <<>>]

Ps(c) == {c[i].p : i \in 1..Len(c)}

(* Seeded fault: the promise is not stored when it is made (it would be    *)
(* stored only once resolved), so a lookup meanwhile misses.               *)
memoizeNoStore(fn, arg) ==
    LET cid == CacheOf(build, useCache, fn)
        key == getKey(build, fn, arg, refs)
        c   == cache[cid]
        new == NextProm
    IN  IF Has(c, key)
        THEN [ok |-> TRUE, hit |-> TRUE, p |-> Get(c, key).p, key |-> key, cid |-> cid,
              cache |-> [cache EXCEPT ![cid] = Touch(cid, c, key)],
              prom |-> prom, refs |-> refs, evicted |-> {}]
        ELSE [ok |-> new <= MaxProm, hit |-> FALSE, p |-> new, key |-> key, cid |-> cid,
              cache |-> cache,
              prom |-> IF new <= MaxProm
                       THEN [prom EXCEPT ![new] = Invoke(fn, arg, key)] ELSE prom,
              refs |-> refs, evicted |-> {}]

(* One call of a function made by memoize(fn, options): the key, the       *)
(* cache.has / cache.get on a hit, and on a miss fn.apply followed by      *)
(* cache.set of the promise, before it settles.  The result names the      *)
(* promise the caller gets and the state the call leaves.                  *)
memoize(fn, arg) ==
    LET cid == CacheOf(build, useCache, fn)
        key == getKey(build, fn, arg, refs)
        c   == cache[cid]
        new == NextProm
        newRefs == IF build = "legacy" /\ fn = "validateStream" THEN refs + 1 ELSE refs
    IN  IF Has(c, key)
        THEN [ok |-> TRUE, hit |-> TRUE, p |-> Get(c, key).p, key |-> key, cid |-> cid,
              cache |-> [cache EXCEPT ![cid] = Touch(cid, c, key)],
              prom |-> prom, refs |-> newRefs, evicted |-> {}]
        ELSE [ok |-> new <= MaxProm, hit |-> FALSE, p |-> new, key |-> key, cid |-> cid,
              cache |-> [cache EXCEPT ![cid] = Set(cid, c, key, new)],
              prom |-> IF new <= MaxProm
                       THEN [prom EXCEPT ![new] = Invoke(fn, arg, key)] ELSE prom,
              refs |-> newRefs,
              evicted |-> Ps(Delete(c, key)) \ Ps(Set(cid, c, key, new))]

(* part_000's getVideoId is a plain async function: every call resolves.   *)
plainCall(fn, arg) ==
    [ok |-> NextProm <= MaxProm, hit |-> FALSE, p |-> NextProm, key |-> "",
     cid |-> "",
     cache |-> cache,
     prom |-> IF NextProm <= MaxProm
              THEN [prom EXCEPT ![NextProm] = Invoke(fn, arg, "")] ELSE prom,
     refs |-> refs, evicted |-> {}]

Call(fn, arg) == IF Memoized(build, fn) THEN memoize(fn, arg) ELSE plainCall(fn, arg)

----------------------------------------------------------------------------
(* The main endpoint                                                       *)

NoOut == [status |-> 0, location |-> None, message |-> ""]

(* The message or error of the JSON body that goes with a status; the 401  *)
(* of main.ts is the middleware's.                                         *)
Body(status) ==
    CASE status = 200 -> "Server running!"
      [] status = 404 -> "No valid stream found!"
      [] status = 401 -> IF build = "legacy" THEN "Unauthorized. Missing API key!"
                         ELSE "Unauthorized"
      [] OTHER -> ""

(* A request: pc, the parsed params, the loop's index i, the wrapped       *)
(* function it awaits (stage), its argument (arg) and promise (p), its     *)
(* response (out), and a record of what happened: whether the last call    *)
(* was served from the cache (hit), the candidates handed to getHslStream  *)
(* (disp), and what getHslStream returned for each (got).                  *)
Idle == [pc |-> "idle", hdr |-> NoHeaders, query |-> <<>>, params |-> <<>>, i |-> 0, stage |-> "", arg |-> "", p |-> 0,
         out |-> NoOut, hit |-> FALSE, disp |-> <<>>, got |-> <<>>]

(* The function getHslStream calls first for a candidate, and its argument *)
FirstFn(param) ==
    CASE param.type = "x" -> "validateStream"
      [] param.type = "v" -> "getVideoInfo"
      [] param.type = "c" -> "getVideoId"

FirstArg(param) == IF param.type = "c" THEN LiveUrl(param.value) ELSE param.value

(* Seeded fault: the call is not awaited, the handler runs on with the     *)
(* promise still pending (its value reads as undefined).                   *)
CallAndAwaitNoWait(r, cur, fn, arg, rest) ==
    LET res == Call(fn, arg)
    IN  /\ res.ok
        /\ cache' = res.cache
        /\ refs' = res.refs
        /\ dropped' = dropped \cup res.evicted
        /\ recent' = IF res.cid # "" /\ CacheKind(res.cid) = "LruCache"
                     THEN Append(SelectSeq(recent, LAMBDA k : k # res.key), res.key)
                     ELSE recent
        /\ rq' = [rq EXCEPT ![r] = [cur EXCEPT !.pc = "await", !.stage = fn, !.arg = arg,
                                               !.p = res.p, !.hit = res.hit]]
        /\ ready' = Append(rest, r)
        /\ prom' = res.prom

(* r calls fn(arg) and awaits the promise; it goes to the microtask queue  *)
(* when the promise is already settled.  cur is r's record at the call.    *)
CallAndAwait(r, cur, fn, arg, rest) ==
    LET res == Call(fn, arg)
    IN  /\ res.ok
        /\ cache' = res.cache
        /\ refs' = res.refs
        /\ dropped' = dropped \cup res.evicted
        /\ recent' = IF res.cid # "" /\ CacheKind(res.cid) = "LruCache"
                     THEN Append(SelectSeq(recent, LAMBDA k : k # res.key), res.key)
                     ELSE recent
        /\ rq' = [rq EXCEPT ![r] = [cur EXCEPT !.pc = "await", !.stage = fn, !.arg = arg,
                                               !.p = res.p, !.hit = res.hit]]
        /\ IF res.prom[res.p].st = "settled"
           THEN ready' = Append(rest, r) /\ prom' = res.prom
           ELSE /\ ready' = rest
                /\ prom' = [res.prom EXCEPT ![res.p].waiters = Append(@, r)]

(* const streamUrl = await getHslStream(param), for the i-th param         *)
getHslStream(r, cur, i, rest) ==
    CallAndAwait(r, [cur EXCEPT !.i = i, !.disp = Append(@, i)],
                 FirstFn(cur.params[i]), FirstArg(cur.params[i]), rest)

(* return c.redirect(streamUrl) / return c.json(.., 404)                   *)
Respond(r, cur, status, location, rest) ==
    /\ rq' = [rq EXCEPT ![r] = [cur EXCEPT !.pc = "done", !.stage = "", !.p = 0,
                                           !.out = [status |-> status,
                                                    location |-> location,
                                                    message |-> Body(status)]]]
    /\ ready' = rest
    /\ UNCHANGED <<cache, prom, refs, dropped, recent>>

(* Seeded fault: the handler lacks `if (!params.length)` and a request     *)
(* without candidates falls through the loop to the 404.                   *)
NewRequestNoStatusPage(r, entries, h) ==
    /\ ready = <<>>
    /\ rq[r].pc = "idle"
    /\ \A q \in Requests : q < r => rq[q].pc # "idle"
    /\ IF ~hasAccess(h)
       THEN Respond(r, [Idle EXCEPT !.hdr = h, !.query = entries], 401, None, <<>>)
       ELSE LET cur == [Idle EXCEPT !.hdr = h, !.query = entries,
                                   !.params = parseParams(<<>>, entries)]
            IN  IF cur.params = <<>>
                THEN Respond(r, cur, 404, None, <<>>)
                ELSE getHslStream(r, cur, 1, <<>>)
    /\ UNCHANGED <<build, useCache, apiKey>>
    /\ cleared' = NoClear
    /\ health' = NoHealth
    /\ ev' = NoEvent

(* app.get("/"): a request without access is answered 401; else the query *)
(* is parsed into params; with none the status page is returned, else the  *)
(* loop starts with the first candidate.                                   *)
NewRequest(r, entries, h) ==
    /\ ready = <<>>
    /\ rq[r].pc = "idle"
    /\ \A q \in Requests : q < r => rq[q].pc # "idle"
    /\ IF ~hasAccess(h)
       THEN Respond(r, [Idle EXCEPT !.hdr = h, !.query = entries], 401, None, <<>>)
       ELSE LET cur == [Idle EXCEPT !.hdr = h, !.query = entries,
                                   !.params = parseParams(<<>>, entries)]
            IN  IF cur.params = <<>>
                THEN Respond(r, cur, 200, None, <<>>)
                ELSE getHslStream(r, cur, 1, <<>>)
    /\ UNCHANGED <<build, useCache, apiKey>>
    /\ cleared' = NoClear
    /\ health' = NoHealth
    /\ ev' = NoEvent

(* The first lines of the handler alone: the query of an arrived request   *)
(* is parsed into params.                                                  *)
ParseQuery(r) ==
    /\ rq[r].pc = "arrived"
    /\ rq' = [rq EXCEPT ![r].pc = "parsed",
                        ![r].params = parseParams(<<>>, rq[r].query)]
    /\ UNCHANGED <<build, useCache, apiKey, cache, prom, refs, ready, dropped, recent>>
    /\ cleared' = NoClear
    /\ health' = NoHealth
    /\ ev' = NoEvent

(* Seeded fault: the loop lacks the `return` and runs on after a present   *)
(* result, answering after the last candidate.                             *)
ReturnedNoStop(r, streamUrl, rest) ==
    LET cur == [rq[r] EXCEPT !.got = Append(@, streamUrl)]
    IN  IF cur.i < Len(cur.params)
        THEN getHslStream(r, cur, cur.i + 1, rest)
        ELSE IF Truthy(streamUrl)
             THEN Respond(r, cur, 302, streamUrl, rest)
             ELSE Respond(r, cur, 404, None, rest)

(* Seeded fault: the first absent result ends the request with the 404.    *)
ReturnedGiveUp(r, streamUrl, rest) ==
    LET cur == [rq[r] EXCEPT !.got = Append(@, streamUrl)]
    IN  IF Truthy(streamUrl)
        THEN Respond(r, cur, 302, streamUrl, rest)
        ELSE Respond(r, cur, 404, None, rest)

(* getHslStream returned streamUrl for candidate i: redirect when it is    *)
(* present, else go on to the next param or fall out of the loop to 404.   *)
Returned(r, streamUrl, rest) ==
    LET cur == [rq[r] EXCEPT !.got = Append(@, streamUrl)]
    IN  IF Truthy(streamUrl)
        THEN Respond(r, cur, 302, streamUrl, rest)
        ELSE IF cur.i < Len(cur.params)
             THEN getHslStream(r, cur, cur.i + 1, rest)
             ELSE Respond(r, cur, 404, None, rest)

(* Seeded fault: getHslStream lacks `if (!vid) return undefined` and looks  *)
(* up the manifest of whatever the resolution gave.                        *)
ResumeNoVidCheck(r) ==
    /\ ready # <<>>
    /\ r = Head(ready)
    /\ LET v == prom[rq[r].p].val
           rest == Tail(ready)
       IN  IF prom[rq[r].p].st = "rejected"
           THEN Returned(r, None, rest)
           ELSE IF rq[r].stage = "getVideoId"
                THEN CallAndAwait(r, rq[r], "getVideoInfo", v, rest)
                ELSE Returned(r, v, rest)
    /\ UNCHANGED <<build, useCache, apiKey>>
    /\ cleared' = NoClear
    /\ health' = NoHealth
    /\ ev' = NoEvent

(* The handler continues after its await, with the promise's value: in     *)
(* getHslStream after getVideoId (if (!vid) return undefined; else         *)
(* getVideoInfo(vid)), or with getHslStream's result.  Were the promise    *)
(* rejected, getHslStream's own catch block would log and return           *)
(* undefined.                                                              *)
Resume(r) ==
    /\ ready # <<>>
    /\ r = Head(ready)
    /\ LET v == prom[rq[r].p].val
           rest == Tail(ready)
       IN  IF prom[rq[r].p].st = "rejected"
           THEN Returned(r, None, rest)
           ELSE IF rq[r].stage = "getVideoId" /\ Truthy(v)
                THEN CallAndAwait(r, rq[r], "getVideoInfo", v, rest)
                ELSE Returned(r, v, rest)
    /\ UNCHANGED <<build, useCache, apiKey>>
    /\ cleared' = NoClear
    /\ health' = NoHealth
    /\ ev' = NoEvent

----------------------------------------------------------------------------
(* The upstream: the platform client and the probed origins                *)

(* The upstream call that p waits for *)
Awaited(p) ==
    CASE prom[p].st \in {"HEAD", "GET"} -> prom[p].st
      [] prom[p].fn = "getVideoInfo" -> "getInfo"
      [] OTHER -> "resolveURL"

(* Seeded fault: an entry whose promise resolves to undefined is removed   *)
(* from its cache (absent results are not kept).                           *)
SettleDropAbsent(p, v) ==
    /\ prom' = [prom EXCEPT ![p].st = "settled", ![p].val = v, ![p].waiters = <<>>]
    /\ ready' = prom[p].waiters
    /\ cache' = IF v = None
                THEN [cid \in CacheIds |-> SelectSeq(cache[cid], LAMBDA e : e.p # p)]
                ELSE cache
    /\ UNCHANGED <<build, useCache, apiKey, refs, rq, dropped, recent>>
    /\ cleared' = NoClear
    /\ health' = NoHealth

(* A promise settles: every handler awaiting it becomes ready, in the      *)
(* order in which they began to await.                                     *)
Settle(p, v) ==
    /\ prom' = [prom EXCEPT ![p].st = "settled", ![p].val = v, ![p].waiters = <<>>]
    /\ ready' = prom[p].waiters
    /\ UNCHANGED <<build, useCache, apiKey, cache, refs, rq, dropped, recent>>
    /\ cleared' = NoClear
    /\ health' = NoHealth

(* Seeded fault: the wrapped function has no catch block, the error        *)
(* rejects its promise.                                                    *)
catchErrorRethrows(p) ==
    /\ prom' = [prom EXCEPT ![p].st = "rejected", ![p].waiters = <<>>]
    /\ ready' = prom[p].waiters
    /\ ev' = Threw(p, Awaited(p))
    /\ UNCHANGED <<build, useCache, apiKey, cache, refs, rq, dropped, recent>>
    /\ cleared' = NoClear
    /\ health' = NoHealth

(* The awaited upstream call raises an error: the catch block of the       *)
(* wrapped function logs it and the function returns undefined.            *)
catchError(p) ==
    /\ Settle(p, None)
    /\ ev' = Threw(p, Awaited(p))

(* session.getInfo(vid) answers: the video has a live manifest or not.     *)
getInfoReturns(p, live) ==
    /\ ready = <<>>
    /\ prom[p].st = "pending" /\ prom[p].fn = "getVideoInfo"
    /\ Settle(p, IF live THEN ManifestUrl(prom[p].arg) ELSE None)
    /\ ev' = Answered(p, "getInfo", NoResponse)

(* session.getInfo(vid) throws                                             *)
getInfoThrows(p) ==
    /\ ready = <<>>
    /\ prom[p].st = "pending" /\ prom[p].fn = "getVideoInfo"
    /\ catchError(p)

(* session.resolveURL(url) answers with payload.videoId, or with none.     *)
resolveURLReturns(p, vid) ==
    /\ ready = <<>>
    /\ prom[p].st = "pending" /\ prom[p].fn = "getVideoId"
    /\ Settle(p, vid)
    /\ ev' = Answered(p, "resolveURL", NoResponse)

(* session.resolveURL(url) throws                                          *)
resolveURLThrows(p) ==
    /\ ready = <<>>
    /\ prom[p].st = "pending" /\ prom[p].fn = "getVideoId"
    /\ catchError(p)

StatusCodes == {200, 399, 400, 404}

(* Seeded fault: the URL is returned as it was given.                      *)
ValidatedRaw(arg) == arg

(* main.ts returns cleanUrl, part_000 returns param.value.                 *)
Validated(arg) == IF build = "main" THEN CleanUrl(arg) ELSE arg

(* Seeded fault: `response.status <= 400`                                  *)
StatusResultInclusive(arg, status) == IF status <= 400 THEN Validated(arg) ELSE None

(* if (response.status < 400) return cleanUrl; else undefined              *)
StatusResult(arg, status) == IF status < 400 THEN Validated(arg) ELSE None

(* Seeded fault: a HEAD response with an error status is retried with GET. *)
probeRespondsRetry(p, status) ==
    /\ ready = <<>>
    /\ prom[p].st \in {"HEAD", "GET"}
    /\ ev' = Answered(p, prom[p].st, status)
    /\ IF prom[p].st = "HEAD" /\ status >= 400
       THEN /\ prom' = [prom EXCEPT ![p].st = "GET"]
            /\ UNCHANGED <<build, useCache, apiKey, cache, refs, rq, ready, dropped, recent>>
            /\ cleared' = NoClear
            /\ health' = NoHealth
       ELSE Settle(p, StatusResult(prom[p].arg, status))

(* The probe (HEAD, or the GET that follows a failed HEAD) is answered.    *)
probeResponds(p, status) ==
    /\ ready = <<>>
    /\ prom[p].st \in {"HEAD", "GET"}
    /\ Settle(p, StatusResult(prom[p].arg, status))
    /\ ev' = Answered(p, prom[p].st, status)

(* fetch(.., HEAD) rejects: .catch(() => fetch(.., GET))                   *)
headFails(p) ==
    /\ ready = <<>>
    /\ prom[p].st = "HEAD"
    /\ prom' = [prom EXCEPT ![p].st = "GET"]
    /\ ev' = Threw(p, "HEAD")
    /\ UNCHANGED <<build, useCache, apiKey, cache, refs, rq, ready, dropped, recent>>
    /\ cleared' = NoClear
    /\ health' = NoHealth

(* the GET rejects too: the catch block logs and the result is undefined   *)
getFails(p) ==
    /\ ready = <<>>
    /\ prom[p].st = "GET"
    /\ catchError(p)

----------------------------------------------------------------------------
(* Time, and the administrative endpoint                                   *)

TtlCaches == {cid \in CacheIds : CacheKind(cid) = "TtlCache"}

Due(cid) == {cache[cid][i].key : i \in {j \in 1..Len(cache[cid]) : cache[cid][j].age >= Ttl}}

(* TtlCache: setTimeout(() => this.delete(key), ttl) fires.                *)
Expire(cid, key) ==
    /\ ready = <<>>
    /\ cid \in TtlCaches
    /\ key \in Due(cid)
    /\ cache' = [cache EXCEPT ![cid] = Delete(cache[cid], key)]
    /\ dropped' = dropped \cup {Get(cache[cid], key).p}
    /\ UNCHANGED <<build, useCache, apiKey, prom, refs, rq, ready, recent>>
    /\ cleared' = NoClear
    /\ health' = NoHealth
    /\ ev' = NoEvent

(* Ages are counted up to "older than the TTL".                            *)
Older(e) == [e EXCEPT !.age = IF e.age > Ttl THEN e.age ELSE e.age + 1]

(* The clock advances by one tick, once the timers that are due have run.  *)
Tick ==
    /\ ready = <<>>
    /\ \A cid \in TtlCaches : Due(cid) = {}
    /\ cache' = [cid \in CacheIds |-> [i \in 1..Len(cache[cid]) |-> Older(cache[cid][i])]]
    /\ cache' # cache
    /\ UNCHANGED <<build, useCache, apiKey, prom, refs, rq, ready, dropped, recent>>
    /\ cleared' = NoClear
    /\ health' = NoHealth
    /\ ev' = NoEvent

(* app.get("/clear-cache") of part_000: 401 without access; else           *)
(* TTL_CACHE.clear() when TTL_CACHE.size, and the message says which.      *)
ClearCache(h) ==
    /\ ready = <<>>
    /\ build = "legacy"
    /\ IF ~hasAccessClear(h)
       THEN /\ cleared' = [status |-> 401, message |-> "Unauthorized. Missing API key!",
                           hdr |-> h]
            /\ UNCHANGED <<cache, dropped>>
       ELSE IF Len(cache["TTL_CACHE"]) > 0
            THEN /\ cache' = [cache EXCEPT !["TTL_CACHE"] = <<>>]
                 /\ dropped' = dropped \cup Ps(cache["TTL_CACHE"])
                 /\ cleared' = [status |-> 200, message |-> "Cache cleared!", hdr |-> h]
            ELSE /\ cleared' = [status |-> 200,
                                message |-> "Nothing to clear. Cache is empty!", hdr |-> h]
                 /\ UNCHANGED <<cache, dropped>>
    /\ UNCHANGED <<build, useCache, apiKey, prom, refs, rq, ready, recent>>
    /\ ev' = NoEvent
    /\ health' = NoHealth

(* A GET /health: through the middleware, then                             *)
(* app.get("/health") = c.json({ status: "ok" }, 200).  cli says that the  *)
(* request is the --health process's, whose exit code is 0 when res.ok and *)
(* 1 otherwise.                                                            *)
HealthRequest(h, cli) ==
    /\ ready = <<>>
    /\ LET status == IF Middleware(h) THEN 200 ELSE 401
       IN  health' = [status |-> status,
                      body |-> IF status = 200 THEN "ok" ELSE "Unauthorized",
                      hdr |-> h, cli |-> cli,
                      exit |-> IF ~cli THEN NoExit ELSE IF IsOk(status) THEN 0 ELSE 1]
    /\ UNCHANGED <<build, useCache, apiKey, cache, prom, refs, rq, ready, dropped, recent>>
    /\ cleared' = NoClear
    /\ ev' = NoEvent

(* app.get("/health") asked by a client                                    *)
Health(h) == HealthRequest(h, FALSE)

(* `livetube --health` run beside a running server                         *)
SelfCheck == HealthRequest(SelfCheckHeaders, TRUE)

----------------------------------------------------------------------------

(* The state after start-up, for a build and a configuration *)
InitCfg(b, uc, key) ==
    /\ build = b
    /\ useCache = uc
    /\ apiKey = key
    /\ cache = [cid \in CacheIds |-> <<>>]
    /\ prom = [p \in Proms |-> NoProm]
    /\ refs = 0
    /\ rq = [r \in Requests |-> Idle]
    /\ ready = <<>>
    /\ cleared = NoClear
    /\ dropped = {}
    /\ recent = <<>>
    /\ ev = NoEvent
    /\ health = NoHealth

(* The default configuration: caching enabled, no API_KEY *)
InitOf(b, uc) == InitCfg(b, uc, FALSE)

(* What follows the arrival of a request: the handlers' continuations,    *)
(* the upstream's answers, the timers and the clock                        *)
Steps ==
    \/ \E r \in Requests : Resume(r)
    \/ \E p \in Proms, live \in BOOLEAN : getInfoReturns(p, live)
    \/ \E p \in Proms : getInfoThrows(p)
    \/ \E p \in Proms, vid \in VideoIds \cup {None} : resolveURLReturns(p, vid)
    \/ \E p \in Proms : resolveURLThrows(p)
    \/ \E p \in Proms, status \in StatusCodes : probeResponds(p, status)
    \/ \E p \in Proms : headFails(p)
    \/ \E p \in Proms : getFails(p)
    \/ \E cid \in CacheIds : \E key \in Keys(cache[cid]) : Expire(cid, key)
    \/ Tick

(* The operations both builds have *)
Next ==
    \/ \E r \in Requests, entries \in Queries, h \in HeaderSets : NewRequest(r, entries, h)
    \/ Steps

(* src/main.ts, with caching enabled (the default configuration) *)
Init == InitOf("main", TRUE)

Spec == Init /\ [][Next]_vars

(* src/unnamed/part_000, with caching enabled: it adds /clear-cache *)
InitLegacy == InitOf("legacy", TRUE)

NextLegacy == Next \/ \E h \in HeaderSets : ClearCache(h)

SpecLegacy == InitLegacy /\ [][NextLegacy]_vars

(* Both builds with API_KEY set, caching enabled                           *)
InitKey == \E b \in {"main", "legacy"} : InitCfg(b, TRUE, TRUE)

SpecKey == InitKey /\ [][NextLegacy]_vars

(* Both builds without API_KEY, caching enabled or disabled (CACHE_TTL=0;  *)
(* in main.ts STREAM_VALIDATION_CACHE_TTL=0 and VIDEO_INFO_CACHE_SIZE=0)   *)
InitAnyCache == \E b \in {"main", "legacy"}, uc \in BOOLEAN : InitCfg(b, uc, FALSE)

SpecAnyCache == InitAnyCache /\ [][NextLegacy]_vars

(* src/main.ts, with requests that hand one string to each of the three   *)
(* wrapped functions: the live-page URL of a handle as a direct URL, as a  *)
(* video id, and (by its handle) as the URL to resolve.                    *)
SameString == LiveUrl("@x")

KeyQueries == {<<<<"x", SameString>>>>, <<<<"v", SameString>>>>, <<<<"c", "@x">>>>}

NextKeys ==
    \/ \E r \in Requests, entries \in KeyQueries : NewRequest(r, entries, Anonymous)
    \/ Steps

SpecKeys == Init /\ [][NextKeys]_vars

(* Both builds, API_KEY set or not, with the health endpoint and the       *)
(* --health process; the requests to "/" carry the key.                    *)
InitHealth == \E b \in {"main", "legacy"}, key \in BOOLEAN : InitCfg(b, TRUE, key)

NextHealth ==
    \/ \E r \in Requests, entries \in Queries : NewRequest(r, entries, WithKey)
    \/ Steps
    \/ \E h \in HeaderSets : Health(h)
    \/ SelfCheck

SpecHealth == InitHealth /\ [][NextHealth]_vars

(* The parser of both builds, on its own: a request has arrived with any   *)
(* query of up to MaxPairs pairs.                                          *)
InitParse ==
    \E b \in {"main", "legacy"}, entries \in ParserQueries :
        /\ build = b
        /\ useCache = TRUE
        /\ apiKey = FALSE
        /\ cache = [cid \in CacheIds |-> <<>>]
        /\ prom = [p \in Proms |-> NoProm]
        /\ refs = 0
        /\ rq = [r \in Requests |->
                   IF r = 1 THEN [Idle EXCEPT !.pc = "arrived", !.hdr = Anonymous,
                                              !.query = entries]
                   ELSE Idle]
        /\ ready = <<>>
        /\ cleared = NoClear
        /\ dropped = {}
        /\ recent = <<>>
        /\ ev = NoEvent
        /\ health = NoHealth

NextParse == \E r \in Requests : ParseQuery(r)

SpecParse == InitParse /\ [][NextParse]_vars

----------------------------------------------------------------------------
(* Properties                                                              *)

Present(v) == v # None

FirstN(n) == [j \in 1..n |-> j]

(* The candidates of r that were handed to getHslStream *)
Dispatched(r) == {rq[r].disp[k] : k \in 1..Len(rq[r].disp)}

(* C1: once a candidate of a request has resolved to a present stream URL, *)
(* no candidate with a greater index is dispatched for that request: the   *)
(* request is answered, awaits nothing, and the candidates dispatched are  *)
(* those up to the first present one.                                      *)
C1_ShortCircuit ==
    \A r \in Requests : \A j \in 1..Len(rq[r].got) :
        Present(rq[r].got[j]) =>
            /\ \A k \in Dispatched(r) : k <= j
            /\ rq[r].pc = "done"
            /\ \A p \in Proms : \A w \in 1..Len(prom[p].waiters) : prom[p].waiters[w] # r

(* C1's case: a request answered by its first candidate while a second     *)
(* candidate was left untried.                                             *)
C1_Witness ==
    \E r \in Requests :
        /\ rq[r].pc = "done" /\ rq[r].out.status = 302
        /\ Len(rq[r].params) = 2
        /\ rq[r].disp = <<1>>
        /\ Present(rq[r].got[1])

(* C2: a request with candidates is answered with the value of the         *)
(* lowest-index candidate that resolved to a present value; every          *)
(* candidate before it was dispatched, exactly once and in order, and      *)
(* yielded absence.                                                        *)
C2_FirstPresentWins ==
    \A r \in Requests :
        (rq[r].pc = "done" /\ rq[r].params # <<>>) =>
            LET n == Len(rq[r].got)
            IN  /\ n >= 1 /\ n <= Len(rq[r].params)
                /\ rq[r].disp = FirstN(n)
                /\ \A j \in 1..(n - 1) : ~Present(rq[r].got[j])
                /\ rq[r].out.status \in {302, 404}
                /\ rq[r].out.status = 302 =>
                       Present(rq[r].got[n]) /\ rq[r].out.location = rq[r].got[n]
                /\ rq[r].out.status = 404 =>
                       ~Present(rq[r].got[n]) /\ n = Len(rq[r].params)

(* C2's example: [ById(a), ByHandle(@x)], no manifest for a, the handle    *)
(* resolves to b whose manifest is live: the answer is b's manifest URL    *)
(* and a was looked up once.                                               *)
C2_Witness ==
    \E r \in Requests :
        /\ rq[r].pc = "done"
        /\ rq[r].params = <<P("v", "a"), P("c", "@x")>>
        /\ rq[r].disp = <<1, 2>>
        /\ rq[r].got = <<None, ManifestUrl("b")>>
        /\ rq[r].out = [status |-> 302, location |-> ManifestUrl("b"), message |-> ""]
        /\ Cardinality({p \in Proms : prom[p].fn = "getVideoInfo" /\ prom[p].arg = "a"}) = 1

(* The invocations of a wrapped function made under one cache key *)
Calls(key) == {p \in Proms : prom[p].st # "free" /\ prom[p].key = key}

NoKey == ""

MemoKeys == {prom[p].key : p \in Proms} \ {NoKey}

(* The requests that have called for key and wait for, or are about to     *)
(* take, the result                                                        *)
Callers(key) ==
    {r \in Requests : rq[r].pc = "await" /\ prom[rq[r].p].key = key}

C4_OneInFlightPerKey ==
    \A p, q \in Proms :
        (p # q /\ InFlight(p) /\ InFlight(q) /\ prom[p].key # NoKey) =>
            prom[p].key # prom[q].key

(* C4 amended: two upstream calls for one key are in flight together only  *)
(* when the entry of the earlier one was removed from the cache (expired,  *)
(* evicted or cleared) before the later one was made; among the calls      *)
(* whose entry was not removed at most one per key is in flight.           *)
C4_SecondCallOnlyAfterRemoval ==
    \A p, q \in Proms :
        (p < q /\ InFlight(p) /\ InFlight(q) /\ prom[p].key # NoKey
               /\ prom[p].key = prom[q].key) =>
            /\ p \in dropped
            /\ \A cid \in CacheIds : p \notin Ps(cache[cid])

(* C4's case: an entry was removed while its call was pending and a second *)
(* call for the key is now in flight beside the first.                     *)
C4_Witness ==
    \E p, q \in Proms :
        /\ p < q /\ InFlight(p) /\ InFlight(q)
        /\ prom[p].key # NoKey /\ prom[p].key = prom[q].key
        /\ p \in dropped

(* r makes a call of a wrapped function in this step *)
Calling(r) == rq'[r].pc = "await" /\ rq'[r] # rq[r]

NoNewPromise == \A p \in Proms : prom'[p].st = "free" <=> prom[p].st = "free"

(* C5: a lookup by getVideoId or getVideoInfo of a key that has an entry   *)
(* in the cache returns that entry's promise and makes no upstream call;   *)
(* the upstream is called on a miss, and only then.                        *)
C5_LiveEntryServed ==
    [][\A r \in Requests :
          (Calling(r) /\ rq'[r].stage \in {"getVideoInfo", "getVideoId"}) =>
              LET fn  == rq'[r].stage
                  c   == cache[CacheOf(build, useCache, fn)]
                  key == getKey(build, fn, rq'[r].arg, refs)
                  live == {i \in 1..Len(c) : c[i].key = key}
              IN  IF live # {}
                  THEN /\ NoNewPromise
                       /\ \A i \in live : rq'[r].p = c[i].p
                  ELSE /\ ~NoNewPromise
                       /\ prom[rq'[r].p].st = "free"
                       /\ prom'[rq'[r].p].fn = fn /\ prom'[rq'[r].p].arg = rq'[r].arg
      ]_vars

(* C5's case: a manifest lookup was served by an entry whose call had      *)
(* already finished.                                                       *)
C5_Witness ==
    \E r \in Requests :
        /\ rq[r].pc = "await" /\ rq[r].hit
        /\ rq[r].stage = "getVideoInfo"
        /\ prom[rq[r].p].st = "settled"
        /\ ready = <<r>>

(* The promises that have an entry in some cache *)
Cached == UNION {Ps(cache[cid]) : cid \in CacheIds}

(* C6 as claimed: validation is memoized by the literal URL, so a request  *)
(* whose direct-URL candidate has the same literal URL as a validation     *)
(* still in the cache sends no probe and gets that validation's promise.   *)
C6_MemoizedByLiteralUrl ==
    [][\A r \in Requests :
          (Calling(r) /\ rq'[r].stage = "validateStream") =>
              LET live == {p \in Cached : /\ prom[p].fn = "validateStream"
                                          /\ prom[p].arg = rq'[r].arg}
              IN  live # {} => NoNewPromise /\ rq'[r].p \in live
      ]_vars

(* The entries that hold a result of fn, in whichever cache *)
EntriesOf(fn) ==
    {e \in UNION {{cache[cid][i] : i \in 1..Len(cache[cid])} : cid \in CacheIds} :
        prom[e.p].fn = fn}

(* C7 as claimed: a validation result lives in the time-bounded cache, so  *)
(* none is still there once more than the TTL has passed since it was      *)
(* stored.                                                                 *)
C7_ValidationGoneAfterTtl == \A e \in EntriesOf("validateStream") : e.age <= Ttl

(* The cache that holds the id resolutions and manifest lookups *)
VideoCache == cache[CacheOf(build, useCache, "getVideoInfo")]

(* C8 as claimed: the id-resolution and manifest entries are bounded in    *)
(* number by the configured size, and an entry leaves the cache only when  *)
(* an insertion into the full cache evicts it, never by the passing of     *)
(* time.                                                                   *)
C8_CapacityBoundedOnly ==
    [][/\ Len(VideoCache') <= MaxSize
       /\ \A i \in 1..Len(VideoCache) :
             VideoCache[i].p \notin Ps(VideoCache') =>
                 Len(VideoCache) = MaxSize /\ Len(VideoCache') = MaxSize
      ]_vars

(* C9 as claimed: in a TtlCache no entry is older than the TTL; an entry    *)
(* younger than the TTL is still there after any step; and nothing, a read *)
(* included, makes an entry younger, so its lifetime runs from insertion.  *)
(* It holds of main.ts, which has no clear operation; in part_000 the      *)
(* /clear-cache endpoint removes entries younger than the TTL.             *)
C9_PresentUntilTtl ==
    /\ [](\A cid \in TtlCaches : \A i \in 1..Len(cache[cid]) : cache[cid][i].age <= Ttl)
    /\ [][\A cid \in TtlCaches : \A i \in 1..Len(cache[cid]) :
             LET e == cache[cid][i]
                 after == {j \in 1..Len(cache'[cid]) : cache'[cid][j].p = e.p}
             IN  /\ e.age < Ttl => after # {}
                 /\ \A j \in after : /\ cache'[cid][j].key = e.key
                                     /\ cache'[cid][j].age >= e.age
         ]_vars

(* C9, amended: as above, except that a step which empties the whole cache *)
(* (the administrative clear) may remove an entry younger than the TTL.    *)
C9_TtlFromInsertion ==
    /\ [](\A cid \in TtlCaches : \A i \in 1..Len(cache[cid]) : cache[cid][i].age <= Ttl)
    /\ [][\A cid \in TtlCaches : \A i \in 1..Len(cache[cid]) :
             LET e == cache[cid][i]
                 after == {j \in 1..Len(cache'[cid]) : cache'[cid][j].p = e.p}
             IN  /\ e.age < Ttl => (after # {} \/ cache'[cid] = <<>>)
                 /\ \A j \in after : /\ cache'[cid][j].key = e.key
                                     /\ cache'[cid][j].age >= e.age
         ]_vars

(* C9's case: an entry of the TtlCache was read when it was at least one   *)
(* tick old, and another entry has expired.                                *)
C9_Witness ==
    \E r \in Requests :
        /\ ready = <<r>> /\ rq[r].pc = "await" /\ rq[r].hit
        /\ \E cid \in TtlCaches : \E i \in 1..Len(cache[cid]) :
               cache[cid][i].p = rq[r].p /\ cache[cid][i].age >= 1
        /\ \E q \in dropped : prom[q].fn # "validateStream"

LruCaches == {cid \in CacheIds : CacheKind(cid) = "LruCache"}

Min(a, b) == IF a < b THEN a ELSE b

(* C10: the LruCache holds exactly the MaxSize most recently looked-up     *)
(* keys, oldest first: an insertion into the full cache evicts one entry,  *)
(* the least recently looked-up one, and a hit makes its entry the most    *)
(* recent.                                                                 *)
C10_LruKeepsMostRecent ==
    \A cid \in LruCaches :
        LET c == cache[cid]
            n == Len(recent)
            m == Min(n, MaxSize)
        IN  /\ Len(c) = m
            /\ \A i \in 1..m : c[i].key = recent[n - m + i]

(* C10's case: MaxSize + 1 distinct keys were inserted, one was evicted,   *)
(* and an entry inserted before the evicted one survived because a hit     *)
(* had refreshed it.                                                       *)
C10_Witness ==
    \E cid \in LruCaches :
        /\ Len(recent) = MaxSize + 1
        /\ Len(cache[cid]) = MaxSize
        /\ \E p \in dropped : /\ prom[p].fn = "validateStream"
                              /\ \E i \in 1..Len(cache[cid]) : cache[cid][i].p < p

(* The pairs of a query whose key is recognized *)
Recognized(q) == {i \in 1..Len(q) : q[i][1] \in {"v", "c", "x"}}

(* The text appended for the unrecognized pairs of q from position j up to *)
(* the next recognized pair                                                *)
RECURSIVE Trailing(_, _)
Trailing(q, j) ==
    IF j > Len(q) \/ j \in Recognized(q)
    THEN ""
    ELSE "&" \o q[j][1] \o "=" \o q[j][2] \o Trailing(q, j + 1)

(* C11: the parser yields one candidate per pair with a recognized key, in *)
(* input order; the unrecognized pairs that follow a recognized pair are   *)
(* appended to its value as "&key=value", in order, up to the next         *)
(* recognized pair; unrecognized pairs before the first recognized pair    *)
(* leave no trace.                                                         *)
C11_ParserCandidates ==
    \A r \in Requests :
        rq[r].pc \notin {"idle", "arrived"} =>
            LET q == rq[r].query
                ps == rq[r].params
            IN  /\ Len(ps) = Cardinality(Recognized(q))
                /\ \A i \in Recognized(q) :
                       LET k == Cardinality({j \in Recognized(q) : j <= i})
                       IN  /\ ps[k].type = q[i][1]
                           /\ ps[k].value = q[i][2] \o Trailing(q, i + 1)

(* C11's example: [(v, abc), (x, http://u), (junk, 1)] gives two           *)
(* candidates, the second with value http://u&junk=1.                      *)
C11_Witness ==
    \E r \in Requests :
        /\ rq[r].pc = "parsed"
        /\ rq[r].query = <<<<"v", "abc">>, <<"x", "http://u">>, <<"junk", "1">>>>
        /\ rq[r].params = <<P("v", "abc"), P("x", "http://u&junk=1")>>

(* C12: a validation never rejects; a probe answered with a status below   *)
(* 400 ends it with the cleaned URL and one answered with 400 or above     *)
(* ends it with undefined; a HEAD that fails at the connection level       *)
(* leaves it waiting for the GET, and a GET that fails ends it with        *)
(* undefined; and a validation ends in no other way than by the end of     *)
(* its own probe, except that one of a string that is no URL ends at once, *)
(* with undefined.                                                         *)
C12_ValidatorResult ==
    /\ [](/\ \A p \in Proms : prom[p].fn = "validateStream" => prom[p].st # "rejected"
          /\ ev.call \in {"HEAD", "GET"} =>
                 LET p == ev.p
                 IN  IF ~ev.threw
                     THEN /\ prom[p].st = "settled"
                          /\ prom[p].val = IF ev.status < 400
                                           THEN CleanUrl(prom[p].arg) ELSE None
                     ELSE IF ev.call = "HEAD"
                          THEN prom[p].st = "GET"
                          ELSE prom[p].st = "settled" /\ prom[p].val = None)
    /\ [][\A p \in Proms :
             (prom'[p].fn = "validateStream" /\ prom[p].st # "settled"
                  /\ prom'[p].st = "settled") =>
                 IF prom[p].st = "free"
                 THEN prom'[p].val = None
                 ELSE ev'.p = p /\ ev'.call = prom[p].st /\ ev'.call \in {"HEAD", "GET"}
         ]_vars

(* C12's case: the HEAD probe failed at the connection level and the GET   *)
(* was answered 200: the validation yields the cleaned URL, which differs  *)
(* from the URL given.                                                     *)
C12_Witness ==
    \E p \in Proms :
        /\ ev = Answered(p, "GET", 200)
        /\ prom[p].arg = "u3?h"
        /\ prom[p].st = "settled" /\ prom[p].val = "u3"

(* C13: a validation starts to wait for the GET probe only in the step in  *)
(* which its HEAD probe fails at the connection level; a HEAD probe that   *)
(* is answered, whatever the status, ends the validation; after the GET no *)
(* further probe is sent, and a validation that has ended stays ended: at  *)
(* most two probes.                                                        *)
C13_GetOnlyAfterHeadFailure ==
    [][\A p \in Proms :
          /\ (prom'[p].st = "GET" /\ prom[p].st # "GET") =>
                 prom[p].st = "HEAD" /\ ev' = Threw(p, "HEAD")
          /\ (prom[p].st = "HEAD" /\ ev'.p = p /\ ~ev'.threw) => prom'[p].st = "settled"
          /\ prom[p].st = "GET" => prom'[p].st \in {"GET", "settled"}
          /\ prom[p].st = "settled" => prom'[p].st = "settled"
      ]_vars

(* C13's case: the HEAD probe of a validation has just failed at the       *)
(* connection level and the validation, with a request waiting for it,     *)
(* now waits for its GET; an earlier validation ended without one.         *)
C13_Witness ==
    \E p, q \in Proms :
        /\ ev = Threw(p, "HEAD")
        /\ prom[p].st = "GET" /\ prom[p].waiters # <<>>
        /\ q < p /\ prom[q].fn = "validateStream" /\ prom[q].st = "settled"

(* C14: no promise of a wrapped function is ever rejected: an upstream     *)
(* call that raises an error ends with undefined; a request is answered    *)
(* 200, 302 or 404 and nothing else; and a handler that resumes with an    *)
(* absent result records absence for that candidate, leaves every other    *)
(* request as it is, and goes on to the next candidate, or answers 404     *)
(* after the last.                                                         *)
C14_FailureIsAbsence ==
    /\ [](/\ \A p \in Proms : prom[p].st # "rejected"
          /\ (ev.threw /\ ev.call # "HEAD") =>
                 prom[ev.p].st = "settled" /\ prom[ev.p].val = None
          /\ \A r \in Requests :
                 rq[r].pc = "done" => rq[r].out.status \in {200, 302, 404})
    /\ [][\A r \in Requests :
             (rq[r].pc = "await" /\ rq'[r] # rq[r] /\ prom[rq[r].p].val = None) =>
                 /\ rq'[r].got = Append(rq[r].got, None)
                 /\ \A q \in Requests \ {r} : rq'[q] = rq[q]
                 /\ IF rq[r].i < Len(rq[r].params)
                    THEN /\ rq'[r].pc = "await"
                         /\ rq'[r].i = rq[r].i + 1
                         /\ rq'[r].disp = Append(rq[r].disp, rq[r].i + 1)
                    ELSE /\ rq'[r].pc = "done"
                         /\ rq'[r].out = [status |-> 404, location |-> None,
                                           message |-> "No valid stream found!"]
         ]_vars

(* C14's case: session.getInfo has just thrown for the first of two        *)
(* candidates of a request, which is about to resume.                      *)
C14_Witness ==
    \E r \in Requests :
        /\ ready = <<r>>
        /\ ev = Threw(rq[r].p, "getInfo")
        /\ rq[r].i = 1 /\ Len(rq[r].params) = 2
        /\ prom[rq[r].p].st = "settled" /\ prom[rq[r].p].val = None

(* C15: a request with candidates is answered 404 exactly when all its     *)
(* candidates were dispatched, in turn, and each yielded absence; no       *)
(* response exists before the request is done, and a response once given   *)
(* is never changed or repeated.                                           *)
C15_NotFoundIffAllAbsent ==
    /\ [](\A r \in Requests :
             /\ rq[r].pc # "done" => rq[r].out = NoOut
             /\ (rq[r].pc = "done" /\ rq[r].params # <<>>) =>
                    (rq[r].out.status = 404 <=>
                        /\ rq[r].disp = FirstN(Len(rq[r].params))
                        /\ Len(rq[r].got) = Len(rq[r].params)
                        /\ \A j \in 1..Len(rq[r].got) : rq[r].got[j] = None))
    /\ [][\A r \in Requests : rq[r].pc = "done" => rq'[r] = rq[r]]_vars

(* C15's case: both candidates of a request yielded absence and it was     *)
(* answered 404.                                                           *)
C15_Witness ==
    \E r \in Requests :
        /\ rq[r].pc = "done" /\ rq[r].out.status = 404
        /\ rq[r].disp = <<1, 2>>
        /\ rq[r].got = <<None, None>>

(* C16 as claimed: a clear request that is not refused is answered 200,    *)
(* leaves every cache empty, so that the next lookup of any key misses,    *)
(* and says "cleared" when some cache held an entry and "nothing to clear" *)
(* when none did.                                                          *)
C16_ClearEmptiesCaches ==
    [][(cleared' # NoClear /\ cleared'.status # 401) =>
          /\ cleared'.status = 200
          /\ \A cid \in CacheIds : cache'[cid] = <<>>
          /\ cleared'.message = IF Cached # {} THEN "Cache cleared!"
                                ELSE "Nothing to clear. Cache is empty!"
      ]_vars

(* The request carries the configured key, as Bearer token or inside its   *)
(* User-Agent                                                              *)
CarriesKey(h) == h.auth = Bearer(API_KEY) \/ includes(h.ua, API_KEY)

(* C17 as claimed: with API_KEY set, a request to the main endpoint that   *)
(* carries the key as Bearer token or inside its User-Agent is served, and *)
(* one that carries it in neither place is answered 401 with no candidate  *)
(* dispatched; with no API_KEY every request is served.                    *)
C17_KeyAsBearerOrUserAgent ==
    \A r \in Requests :
        rq[r].pc \notin {"idle", "arrived"} =>
            IF apiKey /\ ~CarriesKey(rq[r].hdr)
            THEN rq[r].pc = "done" /\ rq[r].out.status = 401 /\ rq[r].disp = <<>>
            ELSE rq[r].out.status # 401

(* C18 as claimed: with API_KEY set, a clear-cache request that carries    *)
(* the key, as Bearer token or inside its User-Agent, is not answered 401, *)
(* and one without the key is answered 401 and leaves the cache as it is.  *)
C18_ClearAcceptsApiKey ==
    [][(apiKey /\ cleared' # NoClear) =>
          IF CarriesKey(cleared'.hdr)
          THEN cleared'.status # 401
          ELSE cleared'.status = 401 /\ cache' = cache
      ]_vars

(* C19 as claimed: with caching disabled no result is memoized: no call of *)
(* a wrapped function is given the promise of a call that has completed.   *)
C19_NothingMemoizedWhenDisabled ==
    [][~useCache => \A r \in Requests : Calling(r) => prom[rq'[r].p].st # "settled"]_vars

(* C20: a request one of whose candidates yielded a stream URL is answered *)
(* 302 with that URL as Location: for a direct URL the URL without the     *)
(* custom-header parameter, for a video id the manifest URL of that video, *)
(* for a handle the manifest URL of the video the handle resolved to.      *)
C20_RedirectLocation ==
    \A r \in Requests :
        (rq[r].pc = "done" /\ \E j \in 1..Len(rq[r].got) : rq[r].got[j] # None) =>
            LET c == rq[r].params[Len(rq[r].got)]
                loc == rq[r].out.location
            IN  /\ rq[r].out.status = 302
                /\ CASE c.type = "x" -> loc = CleanUrl(c.value)
                     [] c.type = "v" -> loc = ManifestUrl(c.value)
                     [] c.type = "c" ->
                          \E p \in Proms :
                              /\ prom[p].fn = "getVideoId"
                              /\ prom[p].arg = LiveUrl(c.value)
                              /\ prom[p].val \in VideoIds
                              /\ loc = ManifestUrl(prom[p].val)

(* C20's case: a direct URL with the custom-header parameter was validated *)
(* and the request was redirected to the URL without it.                   *)
C20_Witness ==
    \E r \in Requests :
        /\ rq[r].pc = "done" /\ Len(rq[r].got) = 3
        /\ rq[r].params[3] = P("x", "u3?h")
        /\ rq[r].out = [status |-> 302, location |-> "u3", message |-> ""]

(* The promises r is among the waiters of *)
WaitsOn(r) ==
    {p \in Proms : \E w \in 1..Len(prom[p].waiters) : prom[p].waiters[w] = r}

IsReady(r) == \E k \in 1..Len(ready) : ready[k] = r

(* C21: within one request the candidates are processed one after another: *)
(* the request waits for at most one call, that of its current candidate,  *)
(* and runs on only once that call has ended; candidate i+1 is dispatched  *)
(* only in the step in which candidate i returned absence, with no call of *)
(* the request outstanding; the candidates dispatched are 1, 2, .. in      *)
(* order, none twice.                                                      *)
C21_StrictlySequential ==
    /\ [](\A r \in Requests :
            LET n == Len(rq[r].disp)
            IN  /\ rq[r].disp = FirstN(n)
                /\ WaitsOn(r) \subseteq {rq[r].p}
                /\ \A p \in WaitsOn(r) :
                       /\ InFlight(p) /\ rq[r].pc = "await" /\ ~IsReady(r)
                       /\ Cardinality({w \in 1..Len(prom[p].waiters) :
                                          prom[p].waiters[w] = r}) = 1
                /\ rq[r].pc = "await" =>
                       /\ Len(rq[r].got) = n - 1
                       /\ rq[r].i = n
                       /\ IF InFlight(rq[r].p) THEN WaitsOn(r) = {rq[r].p}
                          ELSE IsReady(r)
                /\ rq[r].pc = "done" => WaitsOn(r) = {} /\ Len(rq[r].got) = n
                /\ \A j \in 1..Len(rq[r].got) : j < n => ~Present(rq[r].got[j]))
    /\ [][\A r \in Requests :
             rq'[r].disp # rq[r].disp =>
                 LET n == Len(rq[r].disp)
                 IN  /\ rq'[r].disp = Append(rq[r].disp, n + 1)
                     /\ WaitsOn(r) = {}
                     /\ rq[r].p # 0 => ~InFlight(rq[r].p)
                     /\ n > 0 => /\ Len(rq'[r].got) = n
                                 /\ ~Present(rq'[r].got[n])
         ]_vars

(* C21's case: the second candidate of a request is outstanding after the  *)
(* first completed with absence, while another request waits on its own    *)
(* candidate.                                                              *)
C21_Witness ==
    \E r, q \in Requests :
        /\ r # q
        /\ rq[r].pc = "await" /\ rq[r].disp = <<1, 2>> /\ rq[r].got = <<None>>
        /\ InFlight(rq[r].p) /\ WaitsOn(r) = {rq[r].p}
        /\ rq[q].pc = "await" /\ WaitsOn(q) # {}

(* The candidate r is working on *)
Current(r) == rq[r].params[rq[r].i]

(* C22: for a by-handle candidate the id resolution, getVideoId on         *)
(* https://www.youtube.com/<handle>/live, comes first; the manifest lookup *)
(* getVideoInfo is called for the candidate only in the step in which the  *)
(* resolution has yielded an id, and with exactly that id; when the        *)
(* resolution yields no id the candidate returns absence in that step and  *)
(* no manifest lookup is made for it.                                      *)
C22_HandleResolvedFirst ==
    /\ [](\A r \in Requests :
            (rq[r].pc = "await" /\ Current(r).type = "c") =>
                /\ rq[r].stage \in {"getVideoId", "getVideoInfo"}
                /\ rq[r].stage = "getVideoId" => rq[r].arg = LiveUrl(Current(r).value)
                /\ rq[r].stage = "getVideoInfo" => rq[r].arg \in VideoIds)
    /\ [][\A r \in Requests :
             /\ (rq'[r].disp # rq[r].disp /\ rq'[r].params[rq'[r].i].type = "c") =>
                    /\ rq'[r].stage = "getVideoId"
                    /\ rq'[r].arg = LiveUrl(rq'[r].params[rq'[r].i].value)
             /\ (rq[r].pc = "await" /\ rq'[r] # rq[r] /\ Current(r).type = "c") =>
                    LET v == prom[rq[r].p].val
                    IN  IF rq[r].stage = "getVideoId" /\ Present(v)
                        THEN /\ rq'[r].pc = "await" /\ rq'[r].i = rq[r].i
                             /\ rq'[r].stage = "getVideoInfo" /\ rq'[r].arg = v
                             /\ rq'[r].got = rq[r].got
                        ELSE /\ rq'[r].got = Append(rq[r].got, v)
                             /\ rq'[r].pc = "await" => rq'[r].i = rq[r].i + 1
                             /\ rq[r].stage = "getVideoId" => NoNewPromise \/ rq'[r].pc = "await"
         ]_vars

(* C22's two cases: one request's handle resolved to no id and the request *)
(* ended without a manifest lookup; another's resolved to b and it now     *)
(* waits for the manifest lookup of b.                                     *)
C22_Witness ==
    \E r, q \in Requests :
        /\ rq[r].pc = "done" /\ rq[r].params = <<P("c", "@x")>> /\ rq[r].got = <<None>>
        /\ rq[q].pc = "await" /\ rq[q].params = <<P("c", "@x")>>
        /\ rq[q].stage = "getVideoInfo" /\ rq[q].arg = "b"
        /\ \E p \in Proms : /\ prom[p].fn = "getVideoId" /\ prom[p].st = "settled"
                              /\ prom[p].val = "b"
        /\ Cardinality({p \in Proms : prom[p].fn = "getVideoInfo"}) = 1

(* Strings a key is made of, some of them looking like keys themselves *)
KeyStrings == {SameString, "a", "video:a", ""}

WrappedFns == {"validateStream", "getVideoInfo", "getVideoId"}

(* C23: the keys of main.ts are partitioned by purpose: the keys of a      *)
(* validation, a manifest lookup and an id resolution of one string are    *)
(* stream:s, video:s and resolve:s, no key of one function is a key of     *)
(* another, every cache entry holds the promise of the function and        *)
(* argument its key names, and a call of a wrapped function is never given *)
(* a promise made by another function or for another argument, also in the *)
(* store getVideoInfo and getVideoId share.                                *)
C23_KeysPartitioned ==
    /\ [](\A x \in KeyStrings :
            /\ getKey("main", "validateStream", x, refs) = "stream:" \o x
            /\ getKey("main", "getVideoInfo", x, refs) = "video:" \o x
            /\ getKey("main", "getVideoId", x, refs) = "resolve:" \o x
            /\ \A y \in KeyStrings : \A f, g \in WrappedFns :
                   f # g => getKey(build, f, x, refs) # getKey(build, g, y, refs))
    /\ [](\A cid \in CacheIds : \A k \in 1..Len(cache[cid]) :
            LET e == cache[cid][k]
            IN  e.key = getKey(build, prom[e.p].fn, prom[e.p].arg, refs))
    /\ [](\A r \in Requests :
            rq[r].pc = "await" =>
                prom[rq[r].p].fn = rq[r].stage /\ prom[rq[r].p].arg = rq[r].arg)
    /\ [][\A r \in Requests :
             Calling(r) => /\ prom'[rq'[r].p].fn = rq'[r].stage
                           /\ prom'[rq'[r].p].arg = rq'[r].arg
         ]_vars

(* C23's case: the shared store holds an entry of the manifest lookup of a *)
(* string; an id resolution of the same string was not served that entry   *)
(* but made its own call, stored under its own key beside the first.       *)
C23_Witness ==
    \E i, j \in 1..Len(cache["VIDEO_INFO_CACHE"]) : \E r \in Requests :
        LET c == cache["VIDEO_INFO_CACHE"]
        IN  /\ i < j
            /\ prom[c[i].p].fn = "getVideoInfo" /\ prom[c[i].p].arg = SameString
            /\ prom[c[j].p].fn = "getVideoId" /\ prom[c[j].p].arg = SameString
            /\ c[i].key = "video:" \o SameString /\ c[j].key = "resolve:" \o SameString
            /\ rq[r].pc = "await" /\ rq[r].stage = "getVideoId" /\ ~rq[r].hit
            /\ rq[r].p = c[j].p

(* The calls made for key that completed with absence and whose entry was  *)
(* not removed from the cache since                                        *)
AbsentLive(key) ==
    {q \in Proms : /\ prom[q].key = key /\ key # NoKey
                   /\ prom[q].st = "settled" /\ prom[q].val = None
                   /\ q \notin dropped}

(* C24: an absent result is cached like a present one: a call that         *)
(* completed with absence stays in its cache until the entry expires, is   *)
(* evicted or is cleared; until then every lookup of its key is served     *)
(* that settled promise, invokes nothing upstream, and the caller          *)
(* continues with absence.                                                 *)
C24_AbsenceCached ==
    /\ [](\A q \in Proms :
            q \in AbsentLive(prom[q].key) =>
                \E k \in 1..Len(cache[CacheOf(build, useCache, prom[q].fn)]) :
                    LET e == cache[CacheOf(build, useCache, prom[q].fn)][k]
                    IN  e.key = prom[q].key /\ e.p = q)
    /\ [][\A r \in Requests :
             /\ (Calling(r) /\ Memoized(build, rq'[r].stage)) =>
                    LET prior == AbsentLive(getKey(build, rq'[r].stage, rq'[r].arg, refs))
                    IN  prior # {} =>
                            /\ NoNewPromise
                            /\ rq'[r].p \in prior
                            /\ rq'[r].hit
                            /\ \E k \in 1..Len(ready') : ready'[k] = r
             /\ (rq[r].pc = "await" /\ rq'[r] # rq[r] /\ rq[r].p \in AbsentLive(prom[rq[r].p].key)) =>
                    rq'[r].got = Append(rq[r].got, None)
         ]_vars

(* C24's case: a validation failed for one request; a later request looked *)
(* the same URL up, was served the cached absence with no second probe,    *)
(* and was answered 404.                                                   *)
C24_Witness ==
    \E r, q \in Requests :
        /\ r # q
        /\ rq[q].pc = "done" /\ rq[q].params = <<P("x", "u1"), P("x", "u2")>>
        /\ rq[q].got = <<None, None>> /\ ~rq[q].hit
        /\ rq[r].pc = "done" /\ rq[r].params = rq[q].params
        /\ rq[r].got = <<None, None>> /\ rq[r].hit
        /\ rq[r].out.status = 404
        /\ Cardinality({p \in Proms : prom[p].fn = "validateStream"}) = 2
        /\ dropped = {}

(* C25: a request to the main endpoint whose query has no recognized key   *)
(* has no candidates, dispatches nothing, is answered at once with the 200 *)
(* "Server running!" status response and not with the 404, and its         *)
(* arrival leaves the caches, the promises and the upstream calls as they  *)
(* were.                                                                   *)
C25_NoCandidatesStatusPage ==
    /\ [](\A r \in Requests :
            (rq[r].pc # "idle" /\ Recognized(rq[r].query) = {}) =>
                /\ rq[r].params = <<>>
                /\ rq[r].disp = <<>> /\ rq[r].got = <<>>
                /\ rq[r].pc = "done" /\ rq[r].p = 0
                /\ rq[r].out = [status |-> 200, location |-> None,
                                message |-> "Server running!"]
                /\ WaitsOn(r) = {} /\ ~IsReady(r))
    /\ [][\A r \in Requests :
             (rq[r].pc = "idle" /\ rq'[r].pc # "idle" /\ Recognized(rq'[r].query) = {}) =>
                 /\ cache' = cache
                 /\ prom' = prom
                 /\ refs' = refs /\ recent' = recent /\ dropped' = dropped
         ]_vars

(* C25's case: while an earlier request waits for the upstream and its     *)
(* call is in the cache, a request without a recognized key was answered   *)
(* with the status response.                                               *)
C25_Witness ==
    /\ rq[1].pc = "await" /\ InFlight(rq[1].p)
    /\ \E cid \in CacheIds : cache[cid] # <<>>
    /\ rq[2].pc = "done" /\ rq[2].query = <<<<"utm", "1">>>>
    /\ rq[2].out.status = 200 /\ rq[2].out.message = "Server running!"

(* C26: the health endpoint answers 200 {status: ok} whenever the server   *)
(* is running, API_KEY set or not, and the --health process, which shows   *)
(* no key, exits 0 (healthy).                                              *)
C26_HealthAlwaysOk ==
    health # NoHealth =>
        /\ health.status = 200 /\ health.body = "ok"
        /\ health.cli => health.exit = 0
====
